---- MODULE Spec2Model ----
(***************************************************************************)
(* aioshumway: MetricRelay (the registry), Meter/Counter/Timer and the     *)
(* one-datagram FFWDClientProtocol, as a state machine of cooperative      *)
(* asyncio tasks.  A task runs from one suspension point to the next in    *)
(* one step; the only suspension point is the await of                     *)
(* loop.create_datagram_endpoint in MetricRelay._sendto.                   *)
(***************************************************************************)
EXTENDS Integers, Sequences, FiniteSets, TLC

VARIABLES
    metrics,    \* MetricRelay._metrics: insertion-ordered dict, storage key -> instance
    heap,       \* the Counter/Timer instances ever constructed; an instance is its index
    pc,         \* per task: "idle", or "sending" (suspended in create_datagram_endpoint)
    frame,      \* per task: the suspended coroutine's locals (dict iterator, awaited endpoint)
    assocs,     \* every datagram association ever requested, in creation order
    wire,       \* the datagrams that left the host, in order
    log,        \* logger.warning calls, in order
    last,       \* per task: the call it made last and how it ended (observation)
    incrSum,    \* per name: sum of the amounts of the incr(name, .) calls that completed
    handles,    \* per name: the instance timer(name) returned last, 0 if never called
    calls,      \* number of relay calls begun so far
    clock,      \* the wall clock the timed scopes read
    tstart,     \* per Timer instance: its _start, set by the scope entered last
    scope       \* per task: the timed scope it is in or left last (observation)

\* what the timed scopes of the callers change
timing == <<clock, tstart, scope>>

vars == <<metrics, heap, pc, frame, assocs, wire, log, last, incrSum, handles, calls,
          clock, tstart, scope>>

----------------------------------------------------------------------------
(* Bounds and input sets *)

MaxCalls == 3

MaxClock == 3

Tasks == {"A", "B"}

Names == {"x", "timer-x"}

Amounts == {1, -2}

Elapsed == {3}

DefaultKey == "dummy-key"

\* dict literals are insertion-ordered sequences of <<key, value>> pairs
NoArg == <<>>
Some(v) == <<v>>

EmitArgs ==
    { [metric |-> "x", value |-> 42, attributes |-> NoArg, tags |-> NoArg],
      [metric |-> "timer-x", value |-> 7,
       attributes |-> Some(<< <<"a", "1">>, <<"what", "z">> >>),
       tags |-> Some(<< <<"t", "2">> >>)] }

----------------------------------------------------------------------------
(* Python dict, insertion ordered: a sequence of <<key, value>> pairs *)

DictKeys(d) == {d[i][1] : i \in 1..Len(d)}

DictHas(d, k) == k \in DictKeys(d)

DictIndex(d, k) == CHOOSE i \in 1..Len(d) : d[i][1] = k

DictGet(d, k) == d[DictIndex(d, k)][2]

\* variant: the assignment replaces the mapping by one holding k alone
DictSetReplacing(d, k, v) == << <<k, v>> >>

\* d[k] = v: an existing key keeps its position, a new key is appended
DictSet(d, k, v) ==
    IF DictHas(d, k)
    THEN [d EXCEPT ![DictIndex(d, k)] = <<k, v>>]
    ELSE Append(d, <<k, v>>)

RECURSIVE DictUpdate(_, _)
DictUpdate(d, upd) ==
    IF upd = <<>> THEN d
    ELSE DictUpdate(DictSet(d, Head(upd)[1], Head(upd)[2]), Tail(upd))

----------------------------------------------------------------------------
(* shumway.Meter and its variants, as the specification describes them *)

\* Meter(what, key, attributes=None, value=0, tags=None)
NewMeter(cls, what, key, value, attributes, tags) ==
    [cls        |-> cls,
     key        |-> key,
     value      |-> value,
     attributes |-> IF attributes = NoArg
                    THEN << <<"what", what>> >>
                    ELSE DictUpdate(<< <<"what", what>> >>, attributes[1]),
     tags       |-> IF tags = NoArg
                    THEN [kind |-> "list", items |-> <<>>]
                    ELSE [kind |-> "dict", items |-> tags[1]]]

\* incr(amount) exists on Counter only
HasIncr(m) == m.cls = "Counter"

CounterIncr(m, amount) == [m EXCEPT !.value = @ + amount]

\* update(value)
MeterUpdate(m, value) == [m EXCEPT !.value = value]

----------------------------------------------------------------------------
(* aioshumway.Meter.flush and MetricRelay._sendto up to the suspension *)

\* variant: a Timer is packaged under a type of its own
RecordByVariant(m) ==
    [key        |-> m.key,
     attributes |-> m.attributes,
     value      |-> m.value,
     type       |-> IF m.cls = "Timer" THEN "timer" ELSE "metric",
     tags       |-> m.tags]

\* variant: the record leaves the metric's tags out
RecordNoTags(m) ==
    [key        |-> m.key,
     attributes |-> m.attributes,
     value      |-> m.value,
     type       |-> "metric",
     tags       |-> [kind |-> "list", items |-> <<>>]]

\* the dict Meter.flush passes to the sink
Record(m) ==
    [key        |-> m.key,
     attributes |-> m.attributes,
     value      |-> m.value,
     type       |-> "metric",
     tags       |-> m.tags]

\* json.dumps(metric).encode('utf-8'): the members in the dict's order
JsonDumps(rec) ==
    << <<"key", rec.key>>, <<"attributes", rec.attributes>>, <<"value", rec.value>>,
       <<"type", rec.type>>, <<"tags", rec.tags>> >>

\* the value member of a serialized record
MessageValue(message) == message[3][2]

\* the association create_datagram_endpoint is asked for: FFWDClientProtocol(message)
\* with transport None, the endpoint not yet established
NewAssoc(t, call, obj, message) ==
    [owner   |-> t,
     call    |-> call,
     obj     |-> obj,
     message |-> message,
     state   |-> "pending",
     open    |-> TRUE,
     events  |-> <<>>]

\* the associations whose socket is held
OpenAssocs == {a \in 1..Len(assocs) : assocs[a].open}

----------------------------------------------------------------------------
(* Observation records *)

NoCall ==
    [op |-> "none", call |-> 0, arg |-> "", status |-> "returned", exc |-> "",
     ret |-> 0, start |-> <<>>, issued |-> <<>>]

Call(op, call, arg, status, exc, ret, start, issued) ==
    [op |-> op, call |-> call, arg |-> arg, status |-> status, exc |-> exc,
     ret |-> ret, start |-> start, issued |-> issued]

NoFrame == [op |-> "none", used |-> 0, pos |-> 0, assoc |-> 0]

NoScope ==
    [state |-> "none", obj |-> 0, entered |-> 0, left |-> 0, measured |-> 0,
     raised |-> FALSE]

Init ==
    /\ metrics = <<>>
    /\ heap = <<>>
    /\ pc = [t \in Tasks |-> "idle"]
    /\ frame = [t \in Tasks |-> NoFrame]
    /\ assocs = <<>>
    /\ wire = <<>>
    /\ log = <<>>
    /\ last = [t \in Tasks |-> NoCall]
    /\ incrSum = [n \in Names |-> 0]
    /\ handles = [n \in Names |-> 0]
    /\ calls = 0
    /\ clock = 0
    /\ tstart = <<>>
    /\ scope = [t \in Tasks |-> NoScope]

CanCall(t) == pc[t] = "idle" /\ calls < MaxCalls

----------------------------------------------------------------------------
(* MetricRelay.incr and MetricRelay.timer: synchronous, one step each *)

\* variant: the lookup always misses, a metric is constructed on every call
HasMetricNever(k) == FALSE

\* the try: self._metrics[key] / except KeyError: idiom
HasMetric(k) == DictHas(metrics, k)

\* variant: timers stored under a prefix no counter name of the inputs starts with
TimerKeyOtherPrefix(metric) == "timer:" \o metric

\* variant: timers stored under the bare name
TimerKeyNoPrefix(metric) == metric

\* storage key of a timer
TimerKey(metric) == "timer-" \o metric

Incr(t, metric, value) ==
    /\ CanCall(t)
    /\ calls' = calls + 1
    /\ LET created == ~HasMetric(metric)
           counter == IF created THEN Len(heap) + 1 ELSE DictGet(metrics, metric)
           heap1   == IF created
                      THEN Append(heap, NewMeter("Counter", metric, DefaultKey, 0, NoArg, NoArg))
                      ELSE heap
           ok      == HasIncr(heap1[counter])
       IN  /\ metrics' = IF created THEN DictSet(metrics, metric, counter) ELSE metrics
           /\ heap' = IF ok
                      THEN [heap1 EXCEPT ![counter] = CounterIncr(@, value)]
                      ELSE heap1
           /\ incrSum' = IF ok THEN [incrSum EXCEPT ![metric] = @ + value] ELSE incrSum
           /\ last' = [last EXCEPT ![t] =
                  IF ok
                  THEN Call("incr", calls + 1, metric, "returned", "", counter, <<>>, <<>>)
                  ELSE Call("incr", calls + 1, metric, "raised", "AttributeError", 0, <<>>, <<>>)]
    /\ UNCHANGED <<pc, frame, assocs, wire, log, handles>>

\* variant: timer() constructs and stores a Timer on every call
TimerAlwaysNew(t, metric) ==
    /\ CanCall(t)
    /\ calls' = calls + 1
    /\ LET timer == Len(heap) + 1
       IN  /\ metrics' = DictSet(metrics, TimerKey(metric), timer)
           /\ heap' = Append(heap, NewMeter("Timer", metric, DefaultKey, 0, NoArg, NoArg))
           /\ handles' = [handles EXCEPT ![metric] = timer]
           /\ last' = [last EXCEPT ![t] =
                  Call("timer", calls + 1, metric, "returned", "", timer, <<>>, <<>>)]
    /\ UNCHANGED <<pc, frame, assocs, wire, log, incrSum>>

Timer(t, metric) ==
    /\ CanCall(t)
    /\ calls' = calls + 1
    /\ LET timer_metric == TimerKey(metric)
           created == ~HasMetric(timer_metric)
           timer   == IF created THEN Len(heap) + 1 ELSE DictGet(metrics, timer_metric)
       IN  /\ metrics' = IF created THEN DictSet(metrics, timer_metric, timer) ELSE metrics
           /\ heap' = IF created
                      THEN Append(heap, NewMeter("Timer", metric, DefaultKey, 0, NoArg, NoArg))
                      ELSE heap
           /\ handles' = [handles EXCEPT ![metric] = timer]
           /\ last' = [last EXCEPT ![t] =
                  Call("timer", calls + 1, metric, "returned", "", timer, <<>>, <<>>)]
    /\ UNCHANGED <<pc, frame, assocs, wire, log, incrSum>>

\* the caller's use of a Timer obtained from timer(metric): update(elapsed), by hand
\* or at the exit of a timed scope.  Only a Timer is used so: what timer() returns
\* under a key that incr() created is a Counter, which is no timed scope
TimerUpdate(t, metric, elapsed) ==
    /\ pc[t] = "idle"
    /\ handles[metric] # 0
    /\ heap[handles[metric]].cls = "Timer"
    /\ heap[handles[metric]].value # elapsed
    /\ heap' = [heap EXCEPT ![handles[metric]] = MeterUpdate(@, elapsed)]
    /\ UNCHANGED <<metrics, pc, frame, assocs, wire, log, last, incrSum, handles, calls>>

----------------------------------------------------------------------------
(* The suspending calls: MetricRelay.emit, flush, flush_single, _sendto *)

\* flush_single(metric) -> Meter.flush(self._sendto) -> _sendto(record), up to the
\* await of create_datagram_endpoint, where the task is switched out
Suspend(t, op, call, obj, m, used, pos) ==
    /\ assocs' = Append(assocs, NewAssoc(t, call, obj, JsonDumps(Record(m))))
    /\ frame' = [frame EXCEPT ![t] =
           [op |-> op, used |-> used, pos |-> pos, assoc |-> Len(assocs) + 1]]
    /\ pc' = [pc EXCEPT ![t] = "sending"]

\* the call of task t ends: it returns (exc = "") or raises exc
Finish(t, exc) ==
    /\ frame' = [frame EXCEPT ![t] = NoFrame]
    /\ pc' = [pc EXCEPT ![t] = "idle"]
    /\ last' = [last EXCEPT ![t] =
           [@ EXCEPT !.status = IF exc = "" THEN "returned" ELSE "raised", !.exc = exc]]

\* one round of "for metric in self._metrics.values(): await self.flush_single(metric)"
\* from the iterator state (used, pos): the dict view iterator raises RuntimeError
\* when the dict's size differs from the size it had when the iterator was made
FlushIterate(t, cur, used, pos) ==
    IF used # Len(metrics)
    THEN /\ Finish(t, "RuntimeError")
         /\ UNCHANGED assocs
    ELSE IF pos > Len(metrics)
    THEN /\ Finish(t, "")
         /\ UNCHANGED assocs
    ELSE /\ Suspend(t, "flush", cur.call, metrics[pos][2], heap[metrics[pos][2]], used, pos + 1)
         /\ last' = [last EXCEPT ![t] =
                [cur EXCEPT !.issued = Append(@, metrics[pos][2])]]

Emit(t, a) ==
    /\ CanCall(t)
    /\ calls' = calls + 1
    /\ LET one_time_metric ==
               NewMeter("Meter", a.metric, DefaultKey, a.value, a.attributes, a.tags)
       IN  Suspend(t, "emit", calls + 1, 0, one_time_metric, 0, 0)
    /\ last' = [last EXCEPT ![t] = Call("emit", calls + 1, a, "running", "", 0, <<>>, <<>>)]
    /\ UNCHANGED <<metrics, heap, wire, log, incrSum, handles>>

Flush(t) ==
    /\ CanCall(t)
    /\ calls' = calls + 1
    /\ FlushIterate(t,
           Call("flush", calls + 1, "", "running", "", 0,
                [i \in 1..Len(metrics) |-> metrics[i][2]], <<>>),
           Len(metrics), 1)
    /\ UNCHANGED <<metrics, heap, wire, log, incrSum, handles>>

\* variant: _sendto goes on only when the agent has answered the datagram,
\* which the agent never does
SendtoReturnOnReply(t) ==
    /\ pc[t] = "sending"
    /\ assocs[frame[t].assoc].state = "replied"
    /\ IF frame[t].op = "emit"
       THEN /\ Finish(t, "")
            /\ UNCHANGED assocs
       ELSE FlushIterate(t, last[t], frame[t].used, frame[t].pos)
    /\ UNCHANGED <<metrics, heap, wire, log, incrSum, handles, calls>>

\* variant: the metric just flushed is reset to 0 when its send returns
SendtoReturnResetting(t) ==
    /\ pc[t] = "sending"
    /\ assocs[frame[t].assoc].state = "made"
    /\ IF frame[t].op = "emit"
       THEN /\ Finish(t, "")
            /\ UNCHANGED <<assocs, heap>>
       ELSE /\ FlushIterate(t, last[t], frame[t].used, frame[t].pos)
            /\ heap' = [heap EXCEPT ![assocs[frame[t].assoc].obj] = MeterUpdate(@, 0)]
    /\ UNCHANGED <<metrics, wire, log, incrSum, handles, calls>>

\* create_datagram_endpoint returned: _sendto, Meter.flush and flush_single return,
\* then emit returns, or flush goes round its loop
SendtoReturn(t) ==
    /\ pc[t] = "sending"
    /\ assocs[frame[t].assoc].state = "made"
    /\ IF frame[t].op = "emit"
       THEN /\ Finish(t, "")
            /\ UNCHANGED assocs
       ELSE FlushIterate(t, last[t], frame[t].used, frame[t].pos)
    /\ UNCHANGED <<metrics, heap, wire, log, incrSum, handles, calls>>

\* create_datagram_endpoint raises (getaddrinfo or connect failed, the socket is
\* released by the loop): nothing between it and the caller catches, so the
\* exception leaves _sendto, Meter.flush, flush_single and emit or flush
SendtoRaise(t) ==
    /\ pc[t] = "sending"
    /\ assocs[frame[t].assoc].state = "pending"
    /\ assocs' = [assocs EXCEPT ![frame[t].assoc].state = "failed",
                                ![frame[t].assoc].open = FALSE]
    /\ Finish(t, "OSError")
    /\ UNCHANGED <<metrics, heap, wire, log, incrSum, handles, calls>>

----------------------------------------------------------------------------
(* FFWDClientProtocol *)

\* variant: the warning names the error and leaves the payload out
ErrorReceivedNoPayload(message) == Append(log, [exc |-> "OSError", message |-> <<>>])

\* error_received(exc): one warning with the error and the payload
ErrorReceived(message) == Append(log, [exc |-> "OSError", message |-> message])

\* variant: connection_made closes the transport, then sends on it
ConnectionMadeCloseFirst(a, sent) ==
    /\ assocs[a].state = "pending"
    /\ assocs' = [assocs EXCEPT ![a].events = @ \o <<"close", "sendto">>,
                                ![a].state = "made",
                                ![a].open = FALSE]
    /\ wire' = wire
    /\ log' = ErrorReceived(assocs[a].message)
    /\ UNCHANGED <<metrics, heap, pc, frame, last, incrSum, handles, calls>>

\* variant: the payload is serialized from the stored metric when the
\* association is established, not when its flush begins
ConnectionMadeLatePayload(a, sent) ==
    /\ assocs[a].state = "pending"
    /\ assocs' = [assocs EXCEPT ![a].events = @ \o <<"sendto", "close">>,
                                ![a].state = "made",
                                ![a].open = FALSE]
    /\ wire' = IF sent
               THEN Append(wire, IF assocs[a].obj = 0 THEN assocs[a].message
                                 ELSE JsonDumps(Record(heap[assocs[a].obj])))
               ELSE wire
    /\ log' = IF sent THEN log ELSE ErrorReceived(assocs[a].message)
    /\ UNCHANGED <<metrics, heap, pc, frame, last, incrSum, handles, calls>>

\* variant: connection_made sends and leaves the transport open
ConnectionMadeNoClose(a, sent) ==
    /\ assocs[a].state = "pending"
    /\ assocs' = [assocs EXCEPT ![a].events = @ \o <<"sendto">>,
                                ![a].state = "made"]
    /\ wire' = IF sent THEN Append(wire, assocs[a].message) ELSE wire
    /\ log' = IF sent THEN log ELSE ErrorReceived(assocs[a].message)
    /\ UNCHANGED <<metrics, heap, pc, frame, last, incrSum, handles, calls>>

\* connection_made(transport): sendto(message), then close(), which releases the
\* socket; the endpoint's waiter is then done.  The datagram leaves the host
\* (sent), or the transport reports the OSError of the send to error_received
ConnectionMade(a, sent) ==
    /\ assocs[a].state = "pending"
    /\ assocs' = [assocs EXCEPT ![a].events = @ \o <<"sendto", "close">>,
                                ![a].state = "made",
                                ![a].open = FALSE]
    /\ wire' = IF sent THEN Append(wire, assocs[a].message) ELSE wire
    /\ log' = IF sent THEN log ELSE ErrorReceived(assocs[a].message)
    /\ UNCHANGED <<metrics, heap, pc, frame, last, incrSum, handles, calls>>

----------------------------------------------------------------------------

Next ==
    \/ \E t \in Tasks, n \in Names, v \in Amounts : Incr(t, n, v) /\ UNCHANGED timing
    \/ \E t \in Tasks, n \in Names : Timer(t, n) /\ UNCHANGED timing
    \/ \E t \in Tasks, n \in Names, e \in Elapsed : TimerUpdate(t, n, e) /\ UNCHANGED timing
    \/ \E t \in Tasks, a \in EmitArgs : Emit(t, a) /\ UNCHANGED timing
    \/ \E t \in Tasks : Flush(t) /\ UNCHANGED timing
    \/ \E t \in Tasks : SendtoReturn(t) /\ UNCHANGED timing
    \/ \E t \in Tasks : SendtoRaise(t) /\ UNCHANGED timing
    \/ \E a \in 1..Len(assocs), sent \in BOOLEAN : ConnectionMade(a, sent) /\ UNCHANGED timing

Spec == Init /\ [][Next]_vars

----------------------------------------------------------------------------
(* Steps by kind *)

\* a step of task t inside emit, flush, flush_single or _sendto
FlushPathStep(t) ==
    \/ \E a \in EmitArgs : Emit(t, a)
    \/ Flush(t)
    \/ SendtoReturn(t)
    \/ SendtoRaise(t)

\* a callback of the protocol of some association
ProtocolStep == \E a \in 1..Len(assocs), sent \in BOOLEAN : ConnectionMade(a, sent)

Ended(t) == last[t].status # "running"

\* the associations requested by the call that task t made last
AssocsOfCall(t) == {a \in 1..Len(assocs) : assocs[a].call = last[t].call}

----------------------------------------------------------------------------
(* C1: no transport failure, neither a failure to establish the datagram     *)
(* association nor a failure while sending, raises out of flush() or emit(): *)
(* no such call ends by raising the transport's error.                       *)
C1_TransportFailureNeverRaises ==
    \A t \in Tasks :
        last[t].op \in {"emit", "flush"} =>
            ~(last[t].status = "raised" /\ last[t].exc = "OSError")

(* C2: a flush() that has ended issued exactly one send per metric stored    *)
(* when it began, in insertion order, and no send of a flush is requested    *)
(* while an earlier send of the same flush is still being dispatched.        *)
C2_FlushIssuesOneSendPerMetricInOrder ==
    \A t \in Tasks :
        last[t].op = "flush" =>
            /\ Ended(t) => last[t].issued = last[t].start
            /\ \A a, b \in AssocsOfCall(t) : a < b => assocs[a].state # "pending"

(* C3: under any interleaving of tasks, a flush() whose transport did not    *)
(* fail completes without error and has sent each metric that was stored     *)
(* when it began, also when another task created a metric meanwhile.         *)
C3_FlushSafeUnderInterleaving ==
    \A t \in Tasks :
        (last[t].op = "flush" /\ Ended(t) /\ last[t].exc # "OSError") =>
            /\ last[t].status = "returned"
            /\ last[t].issued = last[t].start
            /\ \A i \in 1..Len(last[t].start) :
                   \E a \in AssocsOfCall(t) :
                       /\ assocs[a].obj = last[t].start[i]
                       /\ assocs[a].events = <<"sendto", "close">>

----------------------------------------------------------------------------
(* C4: emit(name, value, attributes, tags) changes neither the stored-metrics *)
(* mapping nor any stored metric, and when it returns exactly one record was  *)
(* handed to the transport: key = the relay's default key, attributes =       *)
(* {what: name} merged with the caller's attributes, the caller's tags (an    *)
(* empty list when none are given), the given value, type "metric".           *)
ExpectedEmit(a, message) ==
    LET attrs == message[2][2]
        given == IF a.attributes = NoArg THEN <<>> ELSE a.attributes[1]
    IN  /\ message[1] = <<"key", DefaultKey>>
        /\ message[2][1] = "attributes"
        /\ DictKeys(attrs) = {"what"} \cup DictKeys(given)
        /\ Len(attrs) = Cardinality(DictKeys(attrs))
        /\ \A k \in DictKeys(given) : DictGet(attrs, k) = DictGet(given, k)
        /\ "what" \notin DictKeys(given) => DictGet(attrs, "what") = a.metric
        /\ message[3] = <<"value", a.value>>
        /\ message[4] = <<"type", "metric">>
        /\ message[5][1] = "tags"
        /\ message[5][2].items = (IF a.tags = NoArg THEN <<>> ELSE a.tags[1])

HandedOneRecord(t) ==
    /\ Cardinality(AssocsOfCall(t)) = 1
    /\ \A a \in AssocsOfCall(t) :
           /\ assocs[a].obj = 0
           /\ assocs[a].events = <<"sendto", "close">>
           /\ ExpectedEmit(last[t].arg, assocs[a].message)

EmitStep(t) ==
    \/ \E a \in EmitArgs : Emit(t, a)
    \/ frame[t].op = "emit" /\ (SendtoReturn(t) \/ SendtoRaise(t))

C4_EmitHandsOverOneRecordOnly ==
    [][\A t \in Tasks :
           EmitStep(t) =>
               /\ UNCHANGED <<metrics, heap>>
               /\ last'[t].status = "returned" => HandedOneRecord(t)']_vars

C4_Witness ==
    \E t \in Tasks :
        /\ last[t].op = "emit"
        /\ last[t].status = "returned"
        /\ last[t].arg.attributes # NoArg
        /\ Len(metrics) >= 1
        /\ Len(wire) = 1

(* C5: the registry holds one instance per storage key; a storage key that   *)
(* is present stays present, at its place and bound to the same instance,    *)
(* and a repeated timer(name) returns the instance it returned before.       *)
C5_OneInstancePerKeyForLife ==
    [][/\ Len(metrics') = Cardinality(DictKeys(metrics'))
       /\ \A i \in 1..Len(metrics) : i <= Len(metrics') /\ metrics'[i] = metrics[i]
       /\ \A n \in Names : handles[n] # 0 => handles'[n] = handles[n]
       /\ \A t \in Tasks :
              (last'[t].op \in {"incr", "timer"} /\ last'[t].status = "returned") =>
                  \E i \in 1..Len(metrics') : metrics'[i][2] = last'[t].ret]_vars

C5_Witness ==
    \E t \in Tasks :
        /\ last[t].op = "timer"
        /\ last[t].arg = "x"
        /\ last[t].call = 3
        /\ last[t].ret = 1
        /\ Len(heap) = 2

(* C6: a counter created by incr holds the sum of the amounts of all the     *)
(* incr calls made on its name, whatever flushes happened in between, and    *)
(* the record a flush builds for it carries that sum.                        *)
KeyOf(obj) == CHOOSE k \in DictKeys(metrics) : DictGet(metrics, k) = obj

CountersHoldSum ==
    \A i \in 1..Len(metrics) :
        heap[metrics[i][2]].cls = "Counter" =>
            heap[metrics[i][2]].value = incrSum[metrics[i][1]]

C6_CounterValueIsSumOfIncrs ==
    [][/\ CountersHoldSum'
       /\ Len(assocs') > Len(assocs) =>
              LET a == assocs'[Len(assocs')]
              IN  (a.obj # 0 /\ heap[a.obj].cls = "Counter") =>
                      MessageValue(a.message) = incrSum[KeyOf(a.obj)]]_vars

C6_Witness ==
    /\ Len(heap) = 1
    /\ heap[1].cls = "Counter"
    /\ incrSum["x"] = -1
    /\ \E i \in 1..Len(wire) : MessageValue(wire[i]) = -1

(* C7: no step of emit, flush, flush_single, _sendto or of the protocol      *)
(* changes a stored metric (value, key, attributes, tags) or the set of      *)
(* storage keys, whether the send succeeds or fails.                         *)
C7_FlushChangesNoMetric ==
    [][((\E t \in Tasks : FlushPathStep(t)) \/ ProtocolStep) =>
           UNCHANGED <<metrics, heap>>]_vars

C7_Witness ==
    \E t \in Tasks :
        /\ last[t].op = "flush"
        /\ last[t].status = "returned"
        /\ Len(last[t].start) = 1
        /\ heap[last[t].start[1]].value # 0
        /\ Len(log) = 1

(* C8: incr(name, amount) completes without error and timer(name) returns a  *)
(* Timer, for every name and after every sequence of incr and timer calls.   *)
C8_NeverRaisesOnNames ==
    \A t \in Tasks :
        last[t].op \in {"incr", "timer"} =>
            /\ last[t].status = "returned"
            /\ last[t].op = "timer" => heap[last[t].ret].cls = "Timer"

(* C9: incr(name) stores under name and timer(name) under "timer-" + name;   *)
(* what is stored under a name and the timer of that name are two distinct   *)
(* instances, and timers of different names are distinct instances.          *)
C9_SeparateNamespaces ==
    /\ \A t \in Tasks :
           last[t].status = "returned" =>
               /\ last[t].op = "incr" =>
                      /\ DictHas(metrics, last[t].arg)
                      /\ DictGet(metrics, last[t].arg) = last[t].ret
               /\ last[t].op = "timer" =>
                      /\ DictHas(metrics, "timer-" \o last[t].arg)
                      /\ DictGet(metrics, "timer-" \o last[t].arg) = last[t].ret
    /\ \A n \in Names :
           (DictHas(metrics, n) /\ handles[n] # 0) => DictGet(metrics, n) # handles[n]
    /\ \A n1, n2 \in Names :
           (n1 # n2 /\ handles[n1] # 0 /\ handles[n2] # 0) => handles[n1] # handles[n2]

C9_Witness ==
    /\ DictHas(metrics, "x")
    /\ heap[DictGet(metrics, "x")].cls = "Counter"
    /\ handles["x"] # 0
    /\ handles["timer-x"] # 0

(* C10: a task holds at most one open association, and none when it is not   *)
(* inside a send; so while at most one task is sending, as during one        *)
(* flush() with no other task sending, at most one association is open.      *)
C10_OneAssociationPerSend ==
    /\ \A t \in Tasks :
           Cardinality({a \in OpenAssocs : assocs[a].owner = t})
               <= (IF pc[t] = "sending" THEN 1 ELSE 0)
    /\ Cardinality({t \in Tasks : pc[t] = "sending"}) <= 1 =>
           Cardinality(OpenAssocs) <= 1

C10_Witness ==
    \E t \in Tasks :
        /\ last[t].op = "flush"
        /\ pc[t] = "sending"
        /\ Len(last[t].issued) = 2
        /\ assocs[1].events = <<"sendto", "close">>
        /\ OpenAssocs = {2}

----------------------------------------------------------------------------
MadeAssocs == {a \in 1..Len(assocs) : assocs[a].state = "made"}

(* C11: an association that was established has sent its one message exactly *)
(* once and then closed its transport, in that order, and no other has sent  *)
(* or closed anything; each association accounts for exactly one datagram    *)
(* handed to the socket (none is batched, none sent after the close).        *)
C11_SendOnceThenClose ==
    /\ \A a \in 1..Len(assocs) :
           /\ assocs[a].state = "made" =>
                  assocs[a].events = <<"sendto", "close">> /\ ~assocs[a].open
           /\ assocs[a].state # "made" => assocs[a].events = <<>>
    /\ Len(wire) + Len(log) = Cardinality(MadeAssocs)
    /\ \A i \in 1..Len(wire) : \E a \in MadeAssocs : assocs[a].message = wire[i]

C11_Witness ==
    /\ Len(wire) = 2
    /\ Cardinality(MadeAssocs) = 2
    /\ \E a \in 1..Len(assocs) : assocs[a].state = "pending"

(* C12: an error of the send is logged as one warning holding the error and  *)
(* the attempted payload, is not raised to the caller and is not retried:    *)
(* an association tries one send at most, a call that raised the transport's *)
(* error had its establishment fail, emit requests at most one association   *)
(* and flush one per flush_single.                                           *)
C12_SendErrorLoggedOnceNoRetry ==
    /\ \A i \in 1..Len(log) :
           /\ log[i].exc = "OSError"
           /\ \E a \in MadeAssocs : assocs[a].message = log[i].message
    /\ Len(log) <= Cardinality(MadeAssocs) - Len(wire)
    /\ \A a \in 1..Len(assocs) :
           Cardinality({i \in 1..Len(assocs[a].events) : assocs[a].events[i] = "sendto"}) <= 1
    /\ \A t \in Tasks :
           /\ (last[t].status = "raised" /\ last[t].exc = "OSError") =>
                  \E a \in AssocsOfCall(t) : assocs[a].state = "failed"
           /\ last[t].op = "emit" => Cardinality(AssocsOfCall(t)) <= 1
           /\ last[t].op = "flush" => Cardinality(AssocsOfCall(t)) = Len(last[t].issued)

C12_Witness ==
    /\ Len(log) = 1
    /\ Len(wire) = 0
    /\ \E t \in Tasks : last[t].op = "emit" /\ last[t].status = "returned"

----------------------------------------------------------------------------
(* C13: whatever the variant (Meter, Counter, Timer), a flush hands the sink *)
(* one record {key, attributes, value, type: "metric", tags} built from the  *)
(* metric's state at that moment, once, and the flushing task goes on only   *)
(* when the sink is done (its association established or failed).            *)
PayloadOf(m) ==
    << <<"key", m.key>>, <<"attributes", m.attributes>>, <<"value", m.value>>,
       <<"type", "metric">>, <<"tags", m.tags>> >>

C13_FlushSameForEveryVariant ==
    [][/\ Len(assocs') > Len(assocs) =>
              LET a == assocs'[Len(assocs')]
              IN  /\ Len(assocs') = Len(assocs) + 1
                  /\ a.obj # 0 => a.message = PayloadOf(heap[a.obj])
                  /\ a.obj = 0 =>
                         /\ [i \in 1..5 |-> a.message[i][1]]
                                = <<"key", "attributes", "value", "type", "tags">>
                         /\ a.message[1][2] = DefaultKey
                         /\ a.message[3][2] = last'[a.owner].arg.value
                         /\ a.message[4][2] = "metric"
       /\ \A t \in Tasks :
              (pc[t] = "sending" /\ frame'[t] # frame[t]) =>
                  assocs'[frame[t].assoc].state # "pending"]_vars

C13_Witness ==
    /\ \E a \in MadeAssocs :
           assocs[a].obj # 0 /\ heap[assocs[a].obj].cls = "Counter"
    /\ \E a \in MadeAssocs :
           assocs[a].obj # 0 /\ heap[assocs[a].obj].cls = "Timer"
    /\ \E t \in Tasks : last[t].op = "flush" /\ last[t].status = "returned"

----------------------------------------------------------------------------
(* C14: incr and timer are in-memory and do not suspend: the calling task    *)
(* stays runnable, no association is requested, nothing is sent or logged,   *)
(* and of the mapping only the entry of the call's own storage key may       *)
(* appear (an entry already there keeps its instance); incr changes no       *)
(* stored metric but its own counter, timer changes none.                    *)
OnlyEntryTouched(k) ==
    /\ \A j \in DictKeys(metrics) :
           /\ DictHas(metrics', j)
           /\ DictGet(metrics', j) = DictGet(metrics, j)
           /\ j # k => heap'[DictGet(metrics, j)] = heap[DictGet(metrics, j)]
    /\ DictKeys(metrics') \subseteq DictKeys(metrics) \cup {k}

NoTransportUse(t) ==
    /\ pc'[t] = "idle"
    /\ UNCHANGED <<pc, frame, assocs, wire, log>>

C14_IncrAndTimerInMemoryOnly ==
    [][\A t \in Tasks, n \in Names :
           /\ (\E v \in Amounts : Incr(t, n, v)) =>
                  OnlyEntryTouched(n) /\ NoTransportUse(t)
           /\ Timer(t, n) =>
                  /\ OnlyEntryTouched("timer-" \o n)
                  /\ NoTransportUse(t)
                  /\ \A i \in 1..Len(heap) : heap'[i] = heap[i]]_vars

C14_Witness ==
    \E t, u \in Tasks :
        /\ pc[u] = "sending"
        /\ last[t].op = "incr"
        /\ last[t].status = "returned"
        /\ last[t].call > last[u].call
        /\ Len(metrics) = 2
        /\ Len(assocs) = 1

----------------------------------------------------------------------------
(* C16: incr("timer-" + x) and timer(x) resolve to the same storage key:     *)
(* the instance timer(x) returns is the one stored under "timer-" + x, the   *)
(* one incr("timer-" + x) works on is that same one, and of the Counter      *)
(* incr would construct and the Timer timer would construct only the one of  *)
(* the call that came first exists.                                          *)
What(m) == DictGet(m.attributes, "what")

ConstructedFor(x) ==
    {i \in 1..Len(heap) :
        \/ heap[i].cls = "Counter" /\ What(heap[i]) = "timer-" \o x
        \/ heap[i].cls = "Timer" /\ What(heap[i]) = x}

C16_PrefixedNamesCollide ==
    \A x \in Names :
        LET k == "timer-" \o x
        IN  /\ handles[x] # 0 =>
                   DictHas(metrics, k) /\ DictGet(metrics, k) = handles[x]
            /\ \A t \in Tasks :
                   (last[t].op = "incr" /\ last[t].arg = k) =>
                       /\ DictHas(metrics, k)
                       /\ last[t].status = "returned" => DictGet(metrics, k) = last[t].ret
                       /\ last[t].status = "raised" =>
                              /\ heap[DictGet(metrics, k)].cls = "Timer"
                              /\ DictGet(metrics, k) = handles[x]
            /\ Cardinality(ConstructedFor(x)) <= 1

C16_Witness ==
    \E t, u \in Tasks :
        /\ last[t].op = "incr"
        /\ last[t].arg = "timer-x"
        /\ last[t].status = "returned"
        /\ last[u].op = "timer"
        /\ last[u].arg = "x"
        /\ last[u].ret = last[t].ret

----------------------------------------------------------------------------
(* C17: the payload of a datagram is the snapshot taken when the flush of    *)
(* its metric starts: the message an association is created with carries the *)
(* metric's value of that moment, no later step changes it, and the datagram *)
(* that leaves is that message, whatever incr did to the metric meanwhile.   *)
C17_PayloadIsSnapshotAtFlushStart ==
    [][/\ \A a \in 1..Len(assocs) :
              a <= Len(assocs') /\ assocs'[a].message = assocs[a].message
       /\ Len(assocs') > Len(assocs) =>
              LET a == assocs'[Len(assocs')]
              IN  a.obj # 0 => MessageValue(a.message) = heap[a.obj].value
       /\ Len(wire') > Len(wire) =>
              \E a \in 1..Len(assocs) :
                  /\ assocs[a].state = "pending"
                  /\ assocs'[a].state = "made"
                  /\ wire' = Append(wire, assocs[a].message)]_vars

C17_Witness ==
    \E a \in MadeAssocs :
        /\ assocs[a].obj # 0
        /\ wire = <<assocs[a].message>>
        /\ heap[assocs[a].obj].cls = "Counter"
        /\ MessageValue(wire[1]) # heap[assocs[a].obj].value
        /\ pc[assocs[a].owner] = "sending"

----------------------------------------------------------------------------
(* Runs in which every association is established and no task changes the    *)
(* mapping while a flush is suspended.  The event loop runs every callback   *)
(* that is ready: a task whose endpoint is done is resumed, and an endpoint  *)
(* that can be established is.  A caller's update of a Timer changes no      *)
(* mapping entry and takes no part in a send; it is left out here.           *)
NoFlushSuspended == \A u \in Tasks : frame[u].op # "flush"

NextLive ==
    \/ \E t \in Tasks, n \in Names, v \in Amounts : NoFlushSuspended /\ Incr(t, n, v) /\ UNCHANGED timing
    \/ \E t \in Tasks, n \in Names : NoFlushSuspended /\ Timer(t, n) /\ UNCHANGED timing
    \/ \E t \in Tasks, a \in EmitArgs : Emit(t, a) /\ UNCHANGED timing
    \/ \E t \in Tasks : Flush(t) /\ UNCHANGED timing
    \/ \E t \in Tasks : SendtoReturn(t) /\ UNCHANGED timing
    \/ \E a \in 1..Len(assocs), sent \in BOOLEAN : ConnectionMade(a, sent) /\ UNCHANGED timing

SpecLive ==
    /\ Init
    /\ [][NextLive]_vars
    /\ \A t \in Tasks : WF_vars(SendtoReturn(t) /\ UNCHANGED timing)
    /\ WF_vars(ProtocolStep /\ UNCHANGED timing)

(* C18: when every establishment completes and no other task changes the     *)
(* mapping during a flush, every flush() and every emit() that was called    *)
(* returns.                                                                   *)
C18_FlushAndEmitReturn ==
    \A t \in Tasks : (last[t].status = "running") ~> (last[t].status = "returned")

C18_Witness ==
    \E t \in Tasks :
        /\ last[t].op = "flush"
        /\ last[t].status = "returned"
        /\ Len(last[t].issued) = 2
        /\ Cardinality(MadeAssocs) = 2

----------------------------------------------------------------------------
(* Timed scopes: "with relay.timer(name): ..." by the tasks, as the          *)
(* specification and the tests describe shumway's Timer: entering stores the *)
(* clock in the instance's _start, leaving calls update(now - _start), on    *)
(* the normal way out and when the block raised alike.                       *)

\* __enter__ on the Timer that timer(metric) returned
ScopeEnter(t, metric) ==
    /\ pc[t] = "idle"
    /\ scope[t].state # "in"
    /\ handles[metric] # 0
    /\ heap[handles[metric]].cls = "Timer"
    /\ tstart' = (handles[metric] :> clock) @@ tstart
    /\ scope' = [scope EXCEPT ![t] =
           [state |-> "in", obj |-> handles[metric], entered |-> clock, left |-> 0,
            measured |-> 0, raised |-> FALSE]]
    /\ UNCHANGED <<metrics, heap, pc, frame, assocs, wire, log, last, incrSum, handles,
                   calls, clock>>

\* __exit__, after the block ended or raised
ScopeExit(t, raised) ==
    /\ scope[t].state = "in"
    /\ LET elapsed == clock - tstart[scope[t].obj]
       IN  /\ heap' = [heap EXCEPT ![scope[t].obj] = MeterUpdate(@, elapsed)]
           /\ scope' = [scope EXCEPT ![t] =
                  [@ EXCEPT !.state = "left", !.left = clock, !.measured = elapsed,
                            !.raised = raised]]
    /\ UNCHANGED <<metrics, pc, frame, assocs, wire, log, last, incrSum, handles,
                   calls, clock, tstart>>

\* time passes
Tick ==
    /\ clock < MaxClock
    /\ clock' = clock + 1
    /\ UNCHANGED <<metrics, heap, pc, frame, assocs, wire, log, last, incrSum, handles,
                   calls, tstart, scope>>

NextScoped ==
    \/ \E t \in Tasks, n \in Names : Timer(t, n) /\ UNCHANGED timing
    \/ \E t \in Tasks, n \in Names : ScopeEnter(t, n)
    \/ \E t \in Tasks, raised \in BOOLEAN : ScopeExit(t, raised)
    \/ Tick

SpecScoped == Init /\ [][NextScoped]_vars

(* C15: a timed scope that was left, normally or through an error, has set   *)
(* the timer's value to the time that passed in that scope, which is not     *)
(* negative.                                                                 *)
C15_ScopeExitSetsElapsedOfScope ==
    \A t \in Tasks :
        scope[t].state = "left" =>
            /\ scope[t].measured = scope[t].left - scope[t].entered
            /\ scope[t].measured >= 0

====
